---------------------------- MODULE Spec2Model ----------------------------
(***************************************************************************)
(* Model of the MXQL query validator (src/mxql/mxql_validator.py).         *)
(*                                                                         *)
(* Text representation.  A piece of text without a newline is a sequence   *)
(* of lexemes; a lexeme is a string that stands for the characters it      *)
(* spells ("SELECT", "host", "[", " ", ...).  The alphabet is chosen so    *)
(* that every character the validator inspects individually (delimiters,   *)
(* quotes, backslash, blank, ':' ',' '*') is a lexeme of its own; the      *)
(* other lexemes are words, numbers, command keywords and comment          *)
(* markers.  A query text is the sequence of its lines, i.e. the text cut  *)
(* at every newline character (a text without newline is one line).       *)
(***************************************************************************)
EXTENDS Integers, Sequences, FiniteSets, TLC

VARIABLES
    issues,     \* self.issues   : sequence of ValidationIssue
    lines,      \* self.lines    : the lines validate() works on
    commands,   \* self.commands : sequence of <<line_num, command_name, full_line>>
    query,      \* the text handed to the last validate() call, as its lines
    result,     \* the value the last validate() call returned: <<is_valid, issues>>
    pc,         \* "start" before any call, "called" after validate(), "exit" after the CLI
                \* ran, "generated" after generate_test_query()
    output,     \* what the CLI printed (format_validation_result), <<>> while nothing
    reused,     \* history: the last validate() call ran on a validator used before
    exit_code,  \* process exit status of the CLI, -1 while there is none
    original_query, \* the text handed to generate_test_query, as its lines
    test_query, \* the text generate_test_query returned, as its lines, <<>> while none
    argv        \* the text the CLI was started with (sys.argv[1] or stdin), <<>> while none

vars == <<issues, lines, commands, query, result, pc, output, reused, exit_code,
          original_query, test_query, argv>>

-----------------------------------------------------------------------------
(* Lexeme classes *)

Whitespace == {" "}

Openers == {"[", "{", "("}

closing == {"]", "}", ")"}

Quotes == {"\"", "'"}

Backslash == "\\"

Digits == {"10", "90"}

Words == {"pk", "host", "cpu", "avg", "key", "value", "a", "b", "x",
          "query", "test_data", "id"}

IsSpace(c) == c \in Whitespace

\* re.IGNORECASE: two lexemes match when they are equal after case folding.
Fold(c) ==
    CASE c = "group"  -> "GROUP"
      [] c = "select" -> "SELECT"
      [] c = "update" -> "UPDATE"
      [] c = "HvText" -> "HVTEXT"
      [] OTHER        -> c

\* Lexemes made only of word characters (\w): words, numbers and the
\* command keywords without a hyphen.
KeywordWords == {"CATEGORY", "TAGLOAD", "OID", "SELECT", "FILTER", "GROUP",
                 "UPDATE", "ORDER", "LIMIT", "CREATE", "DELETE", "RENAME",
                 "FORMAT", "UNFOLD", "JOIN", "APPEND", "SUB", "END", "ADDROW",
                 "TIMEADD", "TIMEPAST", "HvText", "HVTEXT",
                 "group", "select", "update"}

IsWord(c) == c \in Words \cup Digits \cup KeywordWords

IsDigits(c) == c \in Digits

\* Lexemes whose first / last character is a word character
StartsWord(c) == IsWord(c) \/ c = "FLEX-LOAD"

EndsWord(c) == IsWord(c) \/ c \in {"FLEX-LOAD", "$category"}

-----------------------------------------------------------------------------
(* str.strip() on one line and on the whole text *)

NonSpaceIdx(s) == {i \in 1..Len(s) : ~IsSpace(s[i])}

Min(S) == CHOOSE m \in S : \A n \in S : m <= n

Max(S) == CHOOSE m \in S : \A n \in S : m >= n

lstrip(s) == IF NonSpaceIdx(s) = {} THEN <<>>
             ELSE SubSeq(s, Min(NonSpaceIdx(s)), Len(s))

rstrip(s) == IF NonSpaceIdx(s) = {} THEN <<>>
             ELSE SubSeq(s, 1, Max(NonSpaceIdx(s)))

strip(s) == rstrip(lstrip(s))

\* query.strip().split('\n'): the newline is white space too, so strip()
\* removes every leading and trailing line that holds only blanks together
\* with its newline; what is left is cut at the remaining newlines.  A text
\* of blanks and newlines only becomes "", which splits into one empty line.
NonBlankLines(q) == {i \in 1..Len(q) : NonSpaceIdx(q[i]) # {}}

strip_split(q) ==
    IF NonBlankLines(q) = {} THEN << <<>> >>
    ELSE LET f == Min(NonBlankLines(q))
             l == Max(NonBlankLines(q))
         IN  [i \in 1..(l - f + 1) |->
                IF f = l THEN strip(q[f])
                ELSE IF i = 1 THEN lstrip(q[f])
                ELSE IF i = l - f + 1 THEN rstrip(q[l])
                ELSE q[f + i - 1]]

-----------------------------------------------------------------------------
(* MXQLValidator.COMMANDS: name, keyword and required shape, in dict order *)

COMMANDS == <<
    [name |-> "CATEGORY",  shape |-> "brace"],
    [name |-> "TAGLOAD",   shape |-> "bare"],
    [name |-> "FLEX-LOAD", shape |-> "brace"],
    [name |-> "OID",       shape |-> "bracket"],
    [name |-> "SELECT",    shape |-> "bracket"],
    [name |-> "FILTER",    shape |-> "brace"],
    [name |-> "GROUP",     shape |-> "brace"],
    [name |-> "UPDATE",    shape |-> "brace"],
    [name |-> "ORDER",     shape |-> "brace"],
    [name |-> "LIMIT",     shape |-> "digits"],
    [name |-> "CREATE",    shape |-> "brace"],
    [name |-> "DELETE",    shape |-> "bracket"],
    [name |-> "RENAME",    shape |-> "brace"],
    [name |-> "FORMAT",    shape |-> "brace"],
    [name |-> "UNFOLD",    shape |-> "bracket"],
    [name |-> "JOIN",      shape |-> "brace"],
    [name |-> "APPEND",    shape |-> "brace"],
    [name |-> "SUB",       shape |-> "brace"],
    [name |-> "END",       shape |-> "bare"],
    [name |-> "ADDROW",    shape |-> "brace"],
    [name |-> "TIMEADD",   shape |-> "brace"],
    [name |-> "TIMEPAST",  shape |-> "word"],
    [name |-> "HvText",    shape |-> "brace"] >>

\* The position right after the keyword's mandatory white space (\s+), or 0.
AfterSpaces(line) ==
    IF Len(line) >= 3 /\ IsSpace(line[2])
    THEN Min({i \in 3..(Len(line) + 1) : i = Len(line) + 1 \/ ~IsSpace(line[i])})
    ELSE 0

\* (variant: a pattern without a body, as '^TAGLOAD\s*$', asks for blanks after
\* the keyword)
re_match_blank_needed(cmd, line) ==
    /\ Len(line) >= 1
    /\ Fold(line[1]) = Fold(cmd.name)
    /\ LET p == AfterSpaces(line)
       IN  CASE cmd.shape = "bare" ->
                  /\ Len(line) >= 2
                  /\ \A i \in 2..Len(line) : IsSpace(line[i])
             [] cmd.shape = "brace" ->
                  /\ p # 0 /\ p <= Len(line) /\ line[p] = "{"
                  /\ \E k \in (p + 1)..Len(line) : line[k] = "}"
             [] cmd.shape = "bracket" ->
                  /\ p # 0 /\ p <= Len(line) /\ line[p] = "["
                  /\ \E k \in (p + 1)..Len(line) : line[k] = "]"
             [] cmd.shape = "digits" ->
                  p # 0 /\ p <= Len(line) /\ IsDigits(line[p])
             [] cmd.shape = "word" ->
                  p # 0 /\ p <= Len(line) /\ StartsWord(line[p])

\* re.match(pattern, line, re.IGNORECASE) for one entry of COMMANDS.
re_match(cmd, line) ==
    /\ Len(line) >= 1
    /\ Fold(line[1]) = Fold(cmd.name)
    /\ LET p == AfterSpaces(line)
       IN  CASE cmd.shape = "bare" ->
                  \A i \in 2..Len(line) : IsSpace(line[i])
             [] cmd.shape = "brace" ->
                  /\ p # 0 /\ p <= Len(line) /\ line[p] = "{"
                  /\ \E k \in (p + 1)..Len(line) : line[k] = "}"
             [] cmd.shape = "bracket" ->
                  /\ p # 0 /\ p <= Len(line) /\ line[p] = "["
                  /\ \E k \in (p + 1)..Len(line) : line[k] = "]"
             [] cmd.shape = "digits" ->
                  p # 0 /\ p <= Len(line) /\ IsDigits(line[p])
             [] cmd.shape = "word" ->
                  p # 0 /\ p <= Len(line) /\ StartsWord(line[p])

startswith(line, marker) == Len(line) >= 1 /\ line[1] = marker


-----------------------------------------------------------------------------
(* Helpers over sequences *)

Range(s) == {s[i] : i \in 1..Len(s)}

RECURSIVE Flatten(_)
Flatten(ss) == IF ss = <<>> THEN <<>> ELSE Head(ss) \o Flatten(Tail(ss))

\* Smallest index >= i that holds no blank (Len(s) + 1 when there is none): \s*
SkipSpaces(s, i) ==
    Min({j \in i..(Len(s) + 1) : j = Len(s) + 1 \/ ~IsSpace(s[j])})

\* Smallest index >= i that holds no word lexeme: the end of a \w+ run
RunEnd(s, i) ==
    Min({j \in i..(Len(s) + 1) : j = Len(s) + 1 \/ ~IsWord(s[j])})

\* f-string formatting of a count
ToStr(n) ==
    CASE n = 0 -> "0" [] n = 1 -> "1" [] n = 2 -> "2" [] n = 3 -> "3"
      [] n = 4 -> "4" [] n = 5 -> "5" [] n = 6 -> "6" [] OTHER -> "many"

-----------------------------------------------------------------------------
(* Severity and ValidationIssue *)

CRITICAL == "critical"

WARNING == "warning"

INFO == "info"

\* message and suggestion are sequences of strings: the fixed text followed
\* by the values the f-string interpolates.
ValidationIssue(sev, line_num, msg, sugg) ==
    [severity |-> sev, line |-> line_num, message |-> msg, suggestion |-> sugg]

\* MXQLValidator(): the state __init__ sets up
NewValidator == [issues |-> <<>>, lines |-> <<>>, commands |-> <<>>]

append(self, new) == [self EXCEPT !.issues = @ \o new]

\* (variant: WARNING counted as blocking too)
has_critical_or_warning(iss) ==
    \E k \in 1..Len(iss) : iss[k].severity \in {CRITICAL, WARNING}

has_critical(iss) == \E k \in 1..Len(iss) : iss[k].severity = CRITICAL

-----------------------------------------------------------------------------
(* _parse_commands *)

IsParserSkipped(line) ==
    \/ line = <<>>
    \/ startswith(line, "#") \/ startswith(line, "//") \/ startswith(line, "--")
    \/ startswith(line, "/*")

\* The first entry of COMMANDS whose pattern matches, 0 when none does.
FirstMatch(line) ==
    LET M == {k \in 1..Len(COMMANDS) : re_match(COMMANDS[k], line)}
    IN  IF M = {} THEN 0 ELSE Min(M)

ParseLine(i, raw) ==
    LET line == strip(raw)
    IN  IF IsParserSkipped(line) \/ FirstMatch(line) = 0 THEN <<>>
        ELSE << <<i, COMMANDS[FirstMatch(line)].name, line>> >>

_parse_commands(self) ==
    [self EXCEPT !.commands =
        @ \o Flatten([i \in 1..Len(self.lines) |-> ParseLine(i, self.lines[i])])]

-----------------------------------------------------------------------------
(* _check_bracket_balance *)

pairs(c) == CASE c = "[" -> "]" [] c = "{" -> "}" [] c = "(" -> ")"

\* The for-loop over the characters of a line, started at position i with
\* the given stack and flags.  Returns the stack at the point the loop left
\* and the issue the loop returned with (<<>> when it ran to the end).
RECURSIVE scan(_, _, _, _, _, _)
scan(line_num, line, i, stack, in_string, escape) ==
    IF i > Len(line) THEN [stack |-> stack, error |-> <<>>]
    ELSE LET char == line[i] IN
         IF escape THEN scan(line_num, line, i + 1, stack, in_string, FALSE)
         ELSE IF char = Backslash
              THEN scan(line_num, line, i + 1, stack, in_string, TRUE)
         ELSE IF char \in Quotes
              THEN scan(line_num, line, i + 1, stack, ~in_string, FALSE)
         ELSE IF in_string
              THEN scan(line_num, line, i + 1, stack, in_string, FALSE)
         ELSE IF char \in Openers
              THEN scan(line_num, line, i + 1, Append(stack, char), in_string, FALSE)
         ELSE IF char \in closing
              THEN IF stack = <<>>
                   THEN [stack |-> stack,
                         error |-> << ValidationIssue(CRITICAL, line_num,
                                        <<"Unmatched closing bracket", char>>,
                                        <<"Remove extra closing bracket or add opening bracket">>) >>]
                   ELSE LET expected == pairs(stack[Len(stack)])
                            popped == SubSeq(stack, 1, Len(stack) - 1)
                        IN  IF char # expected
                            THEN [stack |-> popped,
                                  error |-> << ValidationIssue(CRITICAL, line_num,
                                                 <<"Mismatched brackets", expected, char>>,
                                                 <<"Change", char, expected>>) >>]
                            ELSE scan(line_num, line, i + 1, popped, in_string, FALSE)
         ELSE scan(line_num, line, i + 1, stack, in_string, FALSE)

\* (variant: the unclosed diagnostic names the outermost opener, stack[0])
BalanceIssues_outermost(line_num, line) ==
    LET r == scan(line_num, line, 1, <<>>, FALSE, FALSE)
    IN  IF r.error # <<>> THEN r.error
        ELSE IF r.stack # <<>>
             THEN << ValidationIssue(CRITICAL, line_num,
                        <<"Unclosed bracket", r.stack[1]>>,
                        <<"Add closing bracket", pairs(r.stack[1])>>) >>
             ELSE <<>>

\* (variant: a closer error leaves the loop with break, not with return)
BalanceIssues_break(line_num, line) ==
    LET r == scan(line_num, line, 1, <<>>, FALSE, FALSE)
    IN  r.error \o
        (IF r.stack # <<>>
         THEN << ValidationIssue(CRITICAL, line_num,
                    <<"Unclosed bracket", r.stack[Len(r.stack)]>>,
                    <<"Add closing bracket", pairs(r.stack[Len(r.stack)])>>) >>
         ELSE <<>>)

\* The issues one call of _check_bracket_balance appends.
BalanceIssues(line_num, line) ==
    LET r == scan(line_num, line, 1, <<>>, FALSE, FALSE)
    IN  IF r.error # <<>> THEN r.error
        ELSE IF r.stack # <<>>
             THEN << ValidationIssue(CRITICAL, line_num,
                        <<"Unclosed bracket", r.stack[Len(r.stack)]>>,
                        <<"Add closing bracket", pairs(r.stack[Len(r.stack)])>>) >>
             ELSE <<>>

_check_bracket_balance(self, line_num, line) ==
    append(self, BalanceIssues(line_num, line))

-----------------------------------------------------------------------------
(* _check_json_structure *)

\* The field name captured at an opener ('{' or ',') at position o of s by
\* opener \s* (\w+) \s* ':'  -- <<>> when the pattern does not match there.
FieldAt(s, o) ==
    LET a == SkipSpaces(s, o + 1)
        e == RunEnd(s, a)
        c == SkipSpaces(s, e)
    IN  IF e > a /\ c <= Len(s) /\ s[c] = ":" THEN << SubSeq(s, a, e - 1) >>
        ELSE <<>>

\* re.findall(opener \s*(\w+)\s*:, s): the captured names, left to right
findall(opener, s) ==
    Flatten([o \in 1..Len(s) |-> IF s[o] = opener THEN FieldAt(s, o) ELSE <<>>])

\* ', '.join(names)
RECURSIVE join(_)
join(names) ==
    IF names = <<>> THEN <<>>
    ELSE IF Len(names) = 1 THEN names[1]
    ELSE names[1] \o <<", ">> \o join(Tail(names))

\* The issues one call of _check_json_structure appends.
JsonIssues(line_num, line) ==
    LET open == {i \in 1..Len(line) : line[i] = "{"}
        close == {i \in 1..Len(line) : line[i] = "}"}
    IN  IF open = {} \/ close = {} \/ Max(close) < Min(open) THEN <<>>
        ELSE LET json_str == SubSeq(line, Min(open), Max(close))
                 unquoted_fields == findall("{", json_str) \o findall(",", json_str)
             IN  IF unquoted_fields # <<>>
                 THEN << ValidationIssue(INFO, line_num,
                           <<"Field names without quotes (valid but not recommended for readability)">>,
                           <<"Consider using quotes: ">> \o join(unquoted_fields)) >>
                 ELSE <<>>

_check_json_structure(self, line_num, line) ==
    append(self, JsonIssues(line_num, line))

-----------------------------------------------------------------------------
(* _check_syntax *)

\* SyntaxStep checking classified lines only.
SyntaxStep_classified_only(self, line_num) ==
    LET line == strip(self.lines[line_num])
    IN  IF IsParserSkipped(line) \/ FirstMatch(line) = 0
        THEN self
        ELSE CHOOSE r \in
               {IF "{" \in Range(line) THEN _check_json_structure(s1, line_num, line)
                                       ELSE s1 :
                   s1 \in {_check_bracket_balance(self, line_num, line)}} : TRUE

\* One iteration of the loop of _check_syntax.
SyntaxStep(self, line_num) ==
    LET line == strip(self.lines[line_num])
    IN  IF line = <<>> \/ startswith(line, "#") \/ startswith(line, "//")
        THEN self
        ELSE CHOOSE r \in
               {IF "{" \in Range(line) THEN _check_json_structure(s1, line_num, line)
                                       ELSE s1 :
                   s1 \in {_check_bracket_balance(self, line_num, line)}} : TRUE

RECURSIVE SyntaxLoop(_, _)
SyntaxLoop(self, line_num) ==
    IF line_num > Len(self.lines) THEN self
    ELSE CHOOSE r \in {SyntaxLoop(s1, line_num + 1) :
                          s1 \in {SyntaxStep(self, line_num)}} : TRUE

_check_syntax(self) == SyntaxLoop(self, 1)

-----------------------------------------------------------------------------
(* Semantic rules *)

\* Indices of the command stream that carry a given command name
Entries(self, name) == {k \in 1..Len(self.commands) : self.commands[k][2] = name}

data_loaders == {"TAGLOAD", "FLEX-LOAD", "ADDROW", "APPEND"}

\* (variant: a SUB block does not count as a data source)
_check_required_commands_loader_only(self) ==
    LET command_names == {self.commands[k][2] : k \in 1..Len(self.commands)}
        has_loader == command_names \cap data_loaders # {}
    IN  IF ~has_loader
        THEN append(self, << ValidationIssue(CRITICAL, 1,
                 <<"Missing data loader command (TAGLOAD, FLEX-LOAD, ADDROW, or APPEND)">>,
                 <<"Add TAGLOAD after CATEGORY command">>) >>)
        ELSE self

\* (variant: the diagnostic that belongs to no line carries line 0)
_check_required_commands_line0(self) ==
    LET command_names == {self.commands[k][2] : k \in 1..Len(self.commands)}
        has_loader == command_names \cap data_loaders # {}
    IN  IF ~has_loader /\ "SUB" \notin command_names
        THEN append(self, << ValidationIssue(CRITICAL, 0,
                 <<"Missing data loader command (TAGLOAD, FLEX-LOAD, ADDROW, or APPEND)">>,
                 <<"Add TAGLOAD after CATEGORY command">>) >>)
        ELSE self

_check_required_commands(self) ==
    LET command_names == {self.commands[k][2] : k \in 1..Len(self.commands)}
        has_loader == command_names \cap data_loaders # {}
    IN  IF ~has_loader /\ "SUB" \notin command_names
        THEN append(self, << ValidationIssue(CRITICAL, 1,
                 <<"Missing data loader command (TAGLOAD, FLEX-LOAD, ADDROW, or APPEND)">>,
                 <<"Add TAGLOAD after CATEGORY command">>) >>)
        ELSE self

_check_command_order(self) ==
    LET cmds == self.commands
        param == \E k \in 1..Len(cmds) : "$category" \in Range(cmds[k][3])
        Step(k) ==
            IF /\ cmds[k][2] \in {"TAGLOAD", "FLEX-LOAD"}
               /\ ~\E j \in 1..(k - 1) : cmds[j][2] = "CATEGORY"
               /\ ~param
            THEN << ValidationIssue(WARNING, cmds[k][1],
                      <<"Data loader before CATEGORY command">>,
                      <<"Move CATEGORY command before TAGLOAD/FLEX-LOAD">>) >>
            ELSE <<>>
    IN  append(self, Flatten([k \in 1..Len(cmds) |-> Step(k)]))

\* (variant: a GROUP anywhere in the stream satisfies every UPDATE)
_check_update_requires_group_anywhere(self) ==
    LET cmds == self.commands
        group_found(k) == \E j \in 1..Len(cmds) : cmds[j][2] = "GROUP"
        Step(k) ==
            IF cmds[k][2] = "UPDATE" /\ ~group_found(k)
            THEN << ValidationIssue(CRITICAL, cmds[k][1],
                      <<"UPDATE command without preceding GROUP">>,
                      <<"Add GROUP command before UPDATE">>) >>
            ELSE <<>>
    IN  append(self, Flatten([k \in 1..Len(cmds) |-> Step(k)]))

_check_update_requires_group(self) ==
    LET cmds == self.commands
        group_found(k) == \E j \in 1..(k - 1) : cmds[j][2] = "GROUP"
        Step(k) ==
            IF cmds[k][2] = "UPDATE" /\ ~group_found(k)
            THEN << ValidationIssue(CRITICAL, cmds[k][1],
                      <<"UPDATE command without preceding GROUP">>,
                      <<"Add GROUP command before UPDATE">>) >>
            ELSE <<>>
    IN  append(self, Flatten([k \in 1..Len(cmds) |-> Step(k)]))

\* (variant: only an unclosed SUB is reported, a surplus END is accepted)
_check_sub_end_pairing_unclosed_only(self) ==
    LET sub_count == Cardinality(Entries(self, "SUB"))
        end_count == Cardinality(Entries(self, "END"))
    IN  IF sub_count > end_count
        THEN append(self, << ValidationIssue(CRITICAL, 1,
                 <<"Mismatched SUB/END", ToStr(sub_count), ToStr(end_count)>>,
                 <<"Ensure each SUB has a matching END">>) >>)
        ELSE self

_check_sub_end_pairing(self) ==
    LET sub_count == Cardinality(Entries(self, "SUB"))
        end_count == Cardinality(Entries(self, "END"))
    IN  IF sub_count # end_count
        THEN append(self, << ValidationIssue(CRITICAL, 1,
                 <<"Mismatched SUB/END", ToStr(sub_count), ToStr(end_count)>>,
                 <<"Ensure each SUB has a matching END">>) >>)
        ELSE self

\* re.search(r'\b<word>\s*:', full_line)
HasParam(full_line, word) ==
    \E i \in 1..Len(full_line) :
        /\ full_line[i] = word
        /\ (i = 1 \/ ~EndsWord(full_line[i - 1]))
        /\ LET c == SkipSpaces(full_line, i + 1)
           IN  c <= Len(full_line) /\ full_line[c] = ":"

\* (variant: the value test is an elif of the key test)
_check_group_syntax_elif(self) ==
    LET cmds == self.commands
        Step(k) ==
            IF cmds[k][2] # "GROUP" THEN <<>>
            ELSE IF HasParam(cmds[k][3], "key")
                 THEN << ValidationIssue(CRITICAL, cmds[k][1],
                           <<"GROUP uses 'key' parameter - should use 'pk' instead">>,
                           <<"Use GROUP {pk: \"field\"} or GROUP {timeunit: \"5m\", pk: \"field\"}">>) >>
            ELSE IF HasParam(cmds[k][3], "value")
                 THEN << ValidationIssue(CRITICAL, cmds[k][1],
                           <<"GROUP uses 'value' parameter - this is UPDATE syntax, not GROUP">>,
                           <<"GROUP uses special keywords (pk, timeunit, first, last, merge, etc.), not key-value pairs">>) >>
            ELSE <<>>
    IN  append(self, Flatten([k \in 1..Len(cmds) |-> Step(k)]))

_check_group_syntax(self) ==
    LET cmds == self.commands
        Step(k) ==
            IF cmds[k][2] # "GROUP" THEN <<>>
            ELSE (IF HasParam(cmds[k][3], "key")
                  THEN << ValidationIssue(CRITICAL, cmds[k][1],
                            <<"GROUP uses 'key' parameter - should use 'pk' instead">>,
                            <<"Use GROUP {pk: \"field\"} or GROUP {timeunit: \"5m\", pk: \"field\"}">>) >>
                  ELSE <<>>)
              \o (IF HasParam(cmds[k][3], "value")
                  THEN << ValidationIssue(CRITICAL, cmds[k][1],
                            <<"GROUP uses 'value' parameter - this is UPDATE syntax, not GROUP">>,
                            <<"GROUP uses special keywords (pk, timeunit, first, last, merge, etc.), not key-value pairs">>) >>
                  ELSE <<>>)
    IN  append(self, Flatten([k \in 1..Len(cmds) |-> Step(k)]))

\* (the nested singleton sets only name the intermediate validator states:
\* s1 is the validator after the first call, s2 after the second, ...)
\* (variant: the semantic rules are skipped once a CRITICAL issue exists)
_check_semantics_abort(self) ==
    IF has_critical(self.issues) THEN self
    ELSE CHOOSE r \in
      {_check_group_syntax(s4) : s4 \in
        {_check_sub_end_pairing(s3) : s3 \in
          {_check_update_requires_group(s2) : s2 \in
            {_check_command_order(s1) : s1 \in
              {_check_required_commands(self)}}}}} : TRUE

_check_semantics(self) ==
    CHOOSE r \in
      {_check_group_syntax(s4) : s4 \in
        {_check_sub_end_pairing(s3) : s3 \in
          {_check_update_requires_group(s2) : s2 \in
            {_check_command_order(s1) : s1 \in
              {_check_required_commands(self)}}}}} : TRUE

-----------------------------------------------------------------------------
(* Best-practice rules *)

\* (variant: any FILTER entry after the first GROUP entry counts)
_check_filter_placement_any(self) ==
    LET F == Entries(self, "FILTER")
        G == Entries(self, "GROUP")
    IN  IF F # {} /\ G # {} /\ Max(F) > Min(G)
        THEN append(self, << ValidationIssue(WARNING,
                 self.commands[Min({k \in F : k > Min(G)})][1],
                 <<"FILTER after GROUP - may impact performance">>,
                 <<"Move FILTER before GROUP for better performance">>) >>)
        ELSE self

_check_filter_placement(self) ==
    LET F == Entries(self, "FILTER")
        G == Entries(self, "GROUP")
    IN  IF F # {} /\ G # {} /\ Min(F) > Min(G)
        THEN append(self, << ValidationIssue(WARNING, self.commands[Min(F)][1],
                 <<"FILTER after GROUP - may impact performance">>,
                 <<"Move FILTER before GROUP for better performance">>) >>)
        ELSE self

\* '[*]' in full_line
HasStar(full_line) ==
    \E i \in 1..(Len(full_line) - 2) :
        full_line[i] = "[" /\ full_line[i + 1] = "*" /\ full_line[i + 2] = "]"

_check_select_star(self) ==
    LET cmds == self.commands
        Step(k) ==
            IF cmds[k][2] = "SELECT" /\ HasStar(cmds[k][3])
            THEN << ValidationIssue(WARNING, cmds[k][1],
                      <<"SELECT [*] includes all fields - may impact performance">>,
                      <<"Select only needed fields explicitly">>) >>
            ELSE <<>>
    IN  append(self, Flatten([k \in 1..Len(cmds) |-> Step(k)]))

\* (variant: only an ORDER entry before the first LIMIT entry counts)
_check_limit_without_order_preceding(self) ==
    LET L == Entries(self, "LIMIT")
    IN  IF L # {} /\ ~\E k \in Entries(self, "ORDER") : k < Min(L)
        THEN append(self, << ValidationIssue(INFO, self.commands[Min(L)][1],
                 <<"LIMIT without ORDER - results may be arbitrary">>,
                 <<"Add ORDER command before LIMIT for predictable Top-N results">>) >>)
        ELSE self

_check_limit_without_order(self) ==
    LET has_order == Entries(self, "ORDER") # {}
        has_limit == Entries(self, "LIMIT") # {}
    IN  IF has_limit /\ ~has_order
        THEN append(self, << ValidationIssue(INFO,
                 self.commands[Min(Entries(self, "LIMIT"))][1],
                 <<"LIMIT without ORDER - results may be arbitrary">>,
                 <<"Add ORDER command before LIMIT for predictable Top-N results">>) >>)
        ELSE self

_check_best_practices(self) ==
    CHOOSE r \in
      {_check_limit_without_order(s2) : s2 \in
        {_check_select_star(s1) : s1 \in
          {_check_filter_placement(self)}}} : TRUE

-----------------------------------------------------------------------------
(* validate *)

\* (variant: self.issues and self.commands are not reset at the start)
validate_state_keep(self, q) ==
    CHOOSE r \in
      {_check_best_practices(s3) : s3 \in
        {_check_semantics(s2) : s2 \in
          {_check_syntax(s1) : s1 \in
            {_parse_commands(s0) : s0 \in
              {[self EXCEPT !.lines = strip_split(q)]}}}}} : TRUE

\* (variant: the semantic rules run before the structural checks)
validate_state_semantics_first(self, q) ==
    CHOOSE r \in
      {_check_best_practices(s3) : s3 \in
        {_check_syntax(s2) : s2 \in
          {_check_semantics(s1) : s1 \in
            {_parse_commands(s0) : s0 \in
              {[self EXCEPT !.issues = <<>>,
                            !.lines = strip_split(q),
                            !.commands = <<>>]}}}}} : TRUE

\* The validator after validate(query) ran on it.
validate_state(self, q) ==
    CHOOSE r \in
      {_check_best_practices(s3) : s3 \in
        {_check_semantics(s2) : s2 \in
          {_check_syntax(s1) : s1 \in
            {_parse_commands(s0) : s0 \in
              {[self EXCEPT !.issues = <<>>,
                            !.lines = strip_split(q),
                            !.commands = <<>>]}}}}} : TRUE

\* The pair validate(query) returns.
validate_result(after) == <<~has_critical(after.issues), after.issues>>

\* format_validation_result: the summary and the three severity groups
Only(iss, sev) == SelectSeq(iss, LAMBDA i : i.severity = sev)

format_validation_result(is_valid, iss) ==
    IF is_valid /\ iss = <<>> THEN [summary |-> <<"Query is valid!">>,
                                   critical |-> <<>>, warnings |-> <<>>, info |-> <<>>]
    ELSE [summary  |-> <<IF is_valid THEN "Query is valid" ELSE "Query has critical issues",
                         ToStr(Len(Only(iss, CRITICAL))), ToStr(Len(Only(iss, WARNING))),
                         ToStr(Len(Only(iss, INFO)))>>,
          critical |-> Only(iss, CRITICAL),
          warnings |-> Only(iss, WARNING),
          info     |-> Only(iss, INFO)]

-----------------------------------------------------------------------------
(* TestQueryGenerator.generate_test_query *)

\* line.upper().startswith(prefix), for a prefix that is a lexeme of its own:
\* the first lexeme of the line, in upper case, is the prefix.
upper_startswith(line, prefix) == Len(line) >= 1 /\ Fold(line[1]) = prefix

\* json.dumps(data, separators=(',', ':')).replace('"', "'") for a dict given
\* as the sequence of its <<key, value>> items: keys and string values in
\* single quotes, numbers bare, no blank anywhere.
RECURSIVE json_items(_)
json_items(data) ==
    IF data = <<>> THEN <<>>
    ELSE LET item == <<"'", data[1][1], "'", ":">> \o
                     (IF IsDigits(data[1][2]) THEN <<data[1][2]>>
                                              ELSE <<"'", data[1][2], "'">>)
         IN  IF Len(data) = 1 THEN item
             ELSE item \o <<",">> \o json_items(Tail(data))

_dict_to_json_inline(data) == <<"{">> \o json_items(data) \o <<"}">>

\* The first loop over query_lines, from index i (counted from 1) on: a
\* CATEGORY line sets has_category, the first line after that test that starts
\* with a loader keyword sets has_loader and insert_pos and ends the loop.
RECURSIVE find_loader(_, _, _)
find_loader(query_lines, i, has_category) ==
    IF i > Len(query_lines)
    THEN [has_category |-> has_category, has_loader |-> FALSE, insert_pos |-> 0]
    ELSE LET line_stripped == strip(query_lines[i])
         IN  IF upper_startswith(line_stripped, "CATEGORY")
             THEN find_loader(query_lines, i + 1, TRUE)
             ELSE IF \/ upper_startswith(line_stripped, "TAGLOAD")
                     \/ upper_startswith(line_stripped, "FLEX-LOAD")
                  THEN [has_category |-> has_category, has_loader |-> TRUE,
                        insert_pos |-> i]
             ELSE find_loader(query_lines, i + 1, has_category)

\* insert_pos when query_lines.insert runs: the number of lines that stay in
\* front of the inserted line.
insert_pos(query_lines) ==
    LET found == find_loader(query_lines, 1, FALSE)
        category == {i \in 1..Len(query_lines) :
                        upper_startswith(strip(query_lines[i]), "CATEGORY")}
    IN  IF ~found.has_loader /\ found.has_category THEN Min(category)
        ELSE found.insert_pos

\* list.insert(pos, x)
insert(list, pos, x) ==
    SubSeq(list, 1, pos) \o <<x>> \o SubSeq(list, pos + 1, Len(list))

\* The text generate_test_query returns, as its lines.
generate_test_query(original, sample_data, test_description) ==
    LET header == (IF test_description # <<>>
                   THEN << <<"#", " ", "Test:", " ">> \o test_description >>
                   ELSE <<>>)
                  \o << <<"#", " ", "This query uses ADDROW to inject test data">>,
                        <<>>,
                        <<"SUB", " ", "{", "id", ":", " ", "test_data", "}">> >>
        rows == [k \in 1..Len(sample_data) |->
                    <<"ADDROW", " ">> \o _dict_to_json_inline(sample_data[k])]
        query_lines == strip_split(original)
    IN  header \o rows \o << <<"END">>, <<>> >>
          \o insert(query_lines, insert_pos(query_lines),
                    <<"APPEND", " ", "{", "query", ":", " ", "test_data", "}">>)

-----------------------------------------------------------------------------
(* Inputs: the query texts the calls are made with *)

MaxLines == 2          \* lines of a query text built from the whole line pool

MaxCmds == 3           \* lines of a query text built from the command pool

MaxReuseLines == 2     \* lines of a query text given to a reused validator

MaxLen == 4            \* lexemes of a line built from the delimiter alphabet

L_CATEGORY    == <<"CATEGORY", " ", "{", "pk", ":", " ", "\"", "host", "\"", "}">>
L_TAGLOAD     == <<"TAGLOAD">>
L_TAGLOAD_IND == <<" ", "TAGLOAD", " ">>
L_FLEX        == <<"FLEX-LOAD", " ", "{", "pk", ":", " ", "$category", "}">>
L_FILTER      == <<"FILTER", " ", "{", "cpu", ":", " ", ">", "90", "}">>
L_GROUP       == <<"GROUP", " ", "{", "pk", ":", " ", "\"", "host", "\"", "}">>
L_GROUP_LOWER == <<"group", " ", "{", "pk", ":", "\"", "host", "\"", "}">>
L_GROUP_KEY   == <<"GROUP", " ", "{", "key", ":", " ", "\"", "host", "\"", "}">>
L_GROUP_KV    == <<"GROUP", " ", "{", "key", ":", "a", ",", " ", "value", " ", ":", "b", "}">>
L_UPDATE      == <<"UPDATE", " ", "{", "avg", ":", " ", "cpu", "}">>
L_SELECT      == <<"SELECT", " ", "[", "host", ",", " ", "cpu", "]">>
L_SELECT_STAR == <<"SELECT", " ", "[", "*", "]">>
L_SELECT_OPEN == <<"SELECT", " ", "[", "a", ",", " ", "b">>
L_ORDER       == <<"ORDER", " ", "{", "\"", "cpu", "\"", ":", "\"", "x", "\"", "}">>
L_LIMIT       == <<"LIMIT", " ", "10">>
L_SUB         == <<"SUB", " ", "{", "id", ":", " ", "test_data", "}">>
L_END         == <<"END">>
L_APPEND      == <<"APPEND", " ", "{", "query", ":", " ", "test_data", "}">>
L_EMPTY       == <<>>
L_BLANK       == <<" ">>
L_HASH        == <<"#", " ", "x", " ", "{">>
L_DASH        == <<"--", " ", "x", " ", "]">>
L_PARAM       == <<"CATEGORY", " ", "$category">>
L_ESCAPED     == <<"FILTER", " ", "{", "a", ":", " ", Backslash, "(", ")", "}">>
L_PAREN       == <<"OID", " ", "[", "(", "a", "]", ")">>

LinePool ==
    {L_CATEGORY, L_TAGLOAD, L_TAGLOAD_IND, L_FLEX, L_FILTER, L_GROUP, L_GROUP_LOWER,
     L_GROUP_KEY, L_GROUP_KV, L_UPDATE, L_SELECT, L_SELECT_STAR, L_SELECT_OPEN,
     L_ORDER, L_LIMIT, L_SUB, L_END, L_APPEND, L_EMPTY, L_BLANK, L_HASH, L_DASH,
     L_PARAM, L_ESCAPED, L_PAREN}

\* Query texts of 1..MaxLines lines taken from the pool
Queries == UNION {[1..n -> LinePool] : n \in 1..MaxLines}

\* Longer query texts over the lines that matter to the ordering rules
CommandPool ==
    {L_CATEGORY, L_TAGLOAD, L_PARAM, L_GROUP, L_UPDATE, L_FILTER, L_SUB, L_END,
     L_LIMIT, L_ORDER}

CommandQueries == UNION {[1..n -> CommandPool] : n \in 1..MaxCmds}

\* The end-to-end scenario
Q_EndToEnd == <<L_CATEGORY, L_TAGLOAD, L_FILTER, L_GROUP, L_UPDATE, L_SELECT>>

\* Query texts given to a validator that is used for several calls
ReusePool == {L_TAGLOAD_IND, L_UPDATE, L_SELECT_OPEN, L_SUB}

ReuseQueries == UNION {[1..n -> ReusePool] : n \in 1..MaxReuseLines}

\* (the round pair behaves like the other two pairs and is left to the line pool)
BalanceAlphabet == {"[", "]", "{", "}"} \cup Quotes \cup {Backslash, "a"}

\* One-line query texts of up to MaxLen lexemes over the delimiter alphabet
BalanceQueries == {<<l>> : l \in UNION {[1..n -> BalanceAlphabet] : n \in 0..MaxLen}}

\* Texts on the parameters of GROUP: value alone, key as a quoted field name,
\* key in an entry that is no GROUP, key and value together
L_GROUP_VALUE == <<"GROUP", " ", "{", "value", ":", " ", "\"", "cpu", "\"", "}">>
L_GROUP_QKEY  == <<"GROUP", " ", "{", "\"", "key", "\"", ":", " ", "\"", "host", "\"", "}">>
L_FILTER_KEY  == <<"FILTER", " ", "{", "key", ":", " ", "\"", "host", "\"", "}">>

GroupPool == {L_GROUP_VALUE, L_GROUP_QKEY, L_FILTER_KEY, L_GROUP_KV}

GroupQueries == {<<a, b>> : a, b \in GroupPool}

\* The texts the command line program is run on
CliQueries ==
    Queries \cup CommandQueries \cup BalanceQueries \cup GroupQueries \cup {Q_EndToEnd}

MaxGenLines == 3       \* lines of a query text given to generate_test_query

\* Original queries of the generator: CATEGORY and loader lines in every
\* order, with other lines and blank lines between them
GenPool == {L_CATEGORY, L_TAGLOAD_IND, L_FLEX, L_FILTER, L_GROUP_LOWER, L_EMPTY}

GenQueries == UNION {[1..n -> GenPool] : n \in 1..MaxGenLines}

\* sample_data: no row, one row, two rows
SampleData ==
    { <<>>,
      << << <<"host", "a">> >> >>,
      << << <<"host", "a">>, <<"cpu", "90">> >>, << >> >> }

\* test_description: none, or a text
Descriptions == { <<>>, <<"x">> }

-----------------------------------------------------------------------------
(* State machine *)

Init ==
    /\ issues = NewValidator.issues
    /\ lines = NewValidator.lines
    /\ commands = NewValidator.commands
    /\ query = <<>>
    /\ result = <<>>
    /\ pc = "start"
    /\ output = <<>>
    /\ reused = FALSE
    /\ exit_code = -1
    /\ original_query = <<>>
    /\ test_query = <<>>
    /\ argv = <<>>

\* validator.validate(q) on the validator the caller already holds (a caller
\* of the class; the command line program makes its one call in Main)
Validate ==
    /\ pc # "exit"
    /\ argv = <<>>
    /\ \E q \in ReuseQueries :
       \E after \in {validate_state([issues |-> issues, lines |-> lines,
                                     commands |-> commands], q)} :
           /\ issues' = after.issues
           /\ lines' = after.lines
           /\ commands' = after.commands
           /\ result' = validate_result(after)
           /\ query' = q
    /\ reused' = (pc = "called")
    /\ pc' = "called"
    /\ UNCHANGED <<output, exit_code, original_query, test_query, argv>>

\* The command line program is started: its query text is the first argument
\* or, without one, what it reads from standard input.
ReadQuery ==
    /\ pc = "start"
    /\ argv = <<>>
    /\ argv' \in CliQueries
    /\ UNCHANGED <<issues, lines, commands, query, result, pc, output, reused,
                   exit_code, original_query, test_query>>

\* The command line program: a new validator, one validate call, the report
\* and the exit status.
Main ==
    /\ pc = "start"
    /\ argv # <<>>
    /\ \E q \in {argv} :
       \E after \in {validate_state(NewValidator, q)} :
       \E res \in {validate_result(after)} :
           /\ issues' = after.issues
           /\ lines' = after.lines
           /\ commands' = after.commands
           /\ result' = res
           /\ output' = format_validation_result(res[1], res[2])
           /\ exit_code' = IF res[1] THEN 0 ELSE 1
           /\ query' = q
    /\ pc' = "exit"
    /\ UNCHANGED <<reused, original_query, test_query, argv>>

Next == ReadQuery \/ Main \/ Validate

Spec == Init /\ [][Next]_vars

\* generator.generate_test_query(q, data, desc)
GenerateTestQuery ==
    /\ pc = "start"
    /\ \E q \in GenQueries, data \in SampleData, desc \in Descriptions :
           /\ original_query' = q
           /\ test_query' = generate_test_query(q, data, desc)
    /\ pc' = "generated"
    /\ UNCHANGED <<issues, lines, commands, query, result, output, reused, exit_code,
                   argv>>

NextGen == GenerateTestQuery

\* The generator on its own: it does not call the validator
SpecGen == Init /\ [][NextGen]_vars

-----------------------------------------------------------------------------
(* Vocabulary of the properties *)

Returned == result[2]

BalanceKinds == {"Unmatched closing bracket", "Mismatched brackets", "Unclosed bracket"}

\* Positions of the returned list holding a diagnostic of one of the kinds
Diags(kinds) == {k \in 1..Len(Returned) : Returned[k].message[1] \in kinds}

DiagsAt(kinds, n) == {k \in Diags(kinds) : Returned[k].line = n}

Names(cmds) == [k \in 1..Len(cmds) |-> cmds[k][2]]

MissingLoader == "Missing data loader command (TAGLOAD, FLEX-LOAD, ADDROW, or APPEND)"

LoaderBeforeCategory == "Data loader before CATEGORY command"

UpdateWithoutGroup == "UPDATE command without preceding GROUP"

MismatchedSubEnd == "Mismatched SUB/END"

LimitWithoutOrder == "LIMIT without ORDER - results may be arbitrary"

\* Lines the loop of _check_syntax does not skip
Scanned(n) ==
    LET line == strip(lines[n])
    IN  ~(line = <<>> \/ startswith(line, "#") \/ startswith(line, "//"))

-----------------------------------------------------------------------------
\* C1: validate returns is_valid = FALSE exactly when the returned list holds
\* a diagnostic of severity CRITICAL; WARNING and INFO diagnostics alone leave
\* the query valid.
C1_ValidIffNoCritical ==
    pc # "start" =>
        (result[1] = FALSE <=>
            \E k \in 1..Len(Returned) : Returned[k].severity = CRITICAL)

\* A valid result that nevertheless carries a WARNING and an INFO
C1_Witness ==
    /\ pc # "start"
    /\ result[1] = TRUE
    /\ \E k \in 1..Len(Returned) : Returned[k].severity = WARNING
    /\ \E k \in 1..Len(Returned) : Returned[k].severity = INFO

\* C2: validate is a pure function of the query text: whatever calls ran
\* before on the same validator, the result and the validator's issues, lines
\* and commands are those a fresh validator produces for the same text.
C2_PureFunction ==
    pc = "called" =>
        LET fresh == validate_state(NewValidator, query)
        IN  /\ result = validate_result(fresh)
            /\ issues = fresh.issues
            /\ lines = fresh.lines
            /\ commands = fresh.commands

\* A call on a validator that an earlier call left with issues and commands
C2_Witness ==
    /\ reused
    /\ Returned # <<>>
    /\ commands # <<>>


\* C3: no check aborts or suppresses another: the returned diagnostics are
\* exactly those the balance check, the object-shape hint and each of the
\* eight rules produce on their own (on an empty issue list) over the same
\* lines and command stream, nothing dropped and nothing added, and running
\* the semantic and best-practice rules before the structural checks gives
\* the same set of diagnostics.
C3_OwnBalance ==
    Flatten([n \in 1..Len(lines) |->
        IF Scanned(n) THEN BalanceIssues(n, strip(lines[n])) ELSE <<>>])

C3_OwnShape ==
    Flatten([n \in 1..Len(lines) |->
        IF Scanned(n) /\ "{" \in Range(strip(lines[n]))
        THEN JsonIssues(n, strip(lines[n])) ELSE <<>>])

C3_Own ==
    LET base == [issues |-> <<>>, lines |-> lines, commands |-> commands]
    IN  << C3_OwnBalance, C3_OwnShape,
           _check_required_commands(base).issues,
           _check_command_order(base).issues,
           _check_update_requires_group(base).issues,
           _check_sub_end_pairing(base).issues,
           _check_group_syntax(base).issues,
           _check_filter_placement(base).issues,
           _check_select_star(base).issues,
           _check_limit_without_order(base).issues >>

C3_ChecksIndependent ==
    pc # "start" =>
        \A own \in {Flatten(C3_Own)} :
        \A sem \in {_check_semantics([issues |-> <<>>, lines |-> lines,
                                      commands |-> commands])} :
        \A best \in {_check_best_practices(sem)} :
        \A swapped \in {_check_syntax(best)} :
            /\ Range(Returned) = Range(own)
            /\ Len(Returned) = Len(own)
            /\ Range(swapped.issues) = Range(Returned)

\* A result holding a balance CRITICAL of the structural check together with
\* a CRITICAL of a semantic rule and an INFO of a best-practice rule
C3_Witness ==
    /\ pc # "start"
    /\ Diags(BalanceKinds) # {}
    /\ Diags({MissingLoader}) # {}
    /\ Diags({LimitWithoutOrder}) # {}


\* C4: every command entry's line number is the 1-based position of its line
\* in the query text as the caller supplied it (blank, comment and
\* unclassified lines count), and the line numbers strictly increase along
\* the command stream.
C4_LineNumbersAsSupplied ==
    pc # "start" =>
        /\ commands = Flatten([i \in 1..Len(query) |-> ParseLine(i, query[i])])
        /\ \A j, k \in 1..Len(commands) : j < k => commands[j][1] < commands[k][1]

\* C5: every UPDATE entry with no GROUP entry before it in the stream yields
\* exactly one CRITICAL 'UPDATE without preceding GROUP' anchored at its line,
\* an UPDATE entry after a GROUP entry yields none, and no such diagnostic is
\* anchored anywhere else.
C5_UpdateRequiresGroup ==
    pc # "start" =>
        /\ \A k \in 1..Len(commands) :
              commands[k][2] = "UPDATE" =>
                  Cardinality(DiagsAt({UpdateWithoutGroup}, commands[k][1])) =
                      IF \E j \in 1..(k - 1) : commands[j][2] = "GROUP" THEN 0 ELSE 1
        /\ \A d \in Diags({UpdateWithoutGroup}) :
              /\ Returned[d].severity = CRITICAL
              /\ \E k \in 1..Len(commands) :
                    commands[k][2] = "UPDATE" /\ commands[k][1] = Returned[d].line

\* UPDATE, GROUP, UPDATE: the first UPDATE is reported, the second is not
C5_Witness ==
    /\ pc # "start"
    /\ Names(commands) = <<"UPDATE", "GROUP", "UPDATE">>
    /\ Cardinality(Diags({UpdateWithoutGroup})) = 1
    /\ DiagsAt({UpdateWithoutGroup}, commands[1][1]) # {}

\* C6: SUB/END pairing is a count check: exactly one CRITICAL diagnostic at
\* line 1 reporting both counts is returned when the number of SUB entries
\* differs from the number of END entries, and none when the counts are equal,
\* whatever the arrangement.
C6_SubEndCountCheck ==
    pc # "start" =>
        LET subs == Cardinality({k \in 1..Len(commands) : commands[k][2] = "SUB"})
            ends == Cardinality({k \in 1..Len(commands) : commands[k][2] = "END"})
            D == Diags({MismatchedSubEnd})
        IN  IF subs # ends
            THEN \E d \in D :
                    /\ D = {d}
                    /\ Returned[d].severity = CRITICAL
                    /\ Returned[d].line = 1
                    /\ Returned[d].message = <<MismatchedSubEnd, ToStr(subs), ToStr(ends)>>
            ELSE D = {}

\* Two SUB and one END: "2 SUB commands, 1 END commands"
C6_Witness ==
    /\ pc # "start"
    /\ Cardinality({k \in 1..Len(commands) : commands[k][2] = "SUB"}) = 2
    /\ Cardinality({k \in 1..Len(commands) : commands[k][2] = "END"}) = 1
    /\ \E d \in Diags({MismatchedSubEnd}) :
          Returned[d].message = <<MismatchedSubEnd, "2", "1">>

\* C7: exactly one CRITICAL 'missing data loader' diagnostic at line 1 is
\* returned when the command stream holds no TAGLOAD, FLEX-LOAD, ADDROW or
\* APPEND entry and no SUB entry; otherwise none is returned.
C7_RequiredDataSource ==
    pc # "start" =>
        LET D == Diags({MissingLoader})
        IN  IF \A k \in 1..Len(commands) :
                  commands[k][2] \notin {"TAGLOAD", "FLEX-LOAD", "ADDROW", "APPEND", "SUB"}
            THEN \E d \in D :
                    D = {d} /\ Returned[d].severity = CRITICAL /\ Returned[d].line = 1
            ELSE D = {}

\* A stream whose only data source is a SUB block: no diagnostic
C7_Witness ==
    /\ pc # "start"
    /\ "SUB" \in Range(Names(commands))
    /\ Range(Names(commands)) \cap data_loaders = {}
    /\ Diags({MissingLoader}) = {}

\* C8: a TAGLOAD or FLEX-LOAD entry gets a WARNING 'data loader before
\* CATEGORY' at its line exactly when no CATEGORY entry precedes it and no raw
\* line of the query, classified or not, contains a $category placeholder.
C8_LoaderBeforeCategory ==
    pc # "start" =>
        \A k \in 1..Len(commands) :
            commands[k][2] \in {"TAGLOAD", "FLEX-LOAD"} =>
                ((\E d \in DiagsAt({LoaderBeforeCategory}, commands[k][1]) :
                      Returned[d].severity = WARNING)
                 <=>
                 (/\ ~\E j \in 1..(k - 1) : commands[j][2] = "CATEGORY"
                  /\ ~\E n \in 1..Len(lines) : "$category" \in Range(lines[n])))


-----------------------------------------------------------------------------
(* Delimiters of a line, read the way the language defines them *)

Delimiters == Openers \cup closing

\* d, a sequence of delimiters, from position i on closes the openers in st
\* and is itself correctly nested.
RECURSIVE Nested(_, _, _)
Nested(d, i, st) ==
    IF i > Len(d) THEN st = <<>>
    ELSE IF d[i] \in Openers THEN Nested(d, i + 1, Append(st, d[i]))
    ELSE /\ st # <<>>
         /\ pairs(st[Len(st)]) = d[i]
         /\ Nested(d, i + 1, SubSeq(st, 1, Len(st) - 1))

WellNested(line) == Nested(SelectSeq(line, LAMBDA c : c \in Delimiters), 1, <<>>)

\* Positions of a line inside a quoted string: a string starts at a quote
\* character and ends at the next occurrence of the same quote character that
\* is not escaped by a backslash (q is the quote that opened the string the
\* position i is in, "" outside strings).
RECURSIVE InsideString(_, _, _, _)
InsideString(line, i, q, esc) ==
    IF i > Len(line) THEN {}
    ELSE IF q = ""
         THEN InsideString(line, i + 1, IF line[i] \in Quotes THEN line[i] ELSE "", FALSE)
    ELSE IF esc THEN {i} \cup InsideString(line, i + 1, q, FALSE)
    ELSE IF line[i] = Backslash THEN {i} \cup InsideString(line, i + 1, q, TRUE)
    ELSE IF line[i] = q THEN InsideString(line, i + 1, "", FALSE)
    ELSE {i} \cup InsideString(line, i + 1, q, FALSE)

NoDelimiterInString(line) ==
    \A i \in InsideString(line, 1, "", FALSE) : line[i] \notin Delimiters

\* The opener a line without quotes and backslashes leaves open last: the
\* last opener that no later part of the line closes.
Unclosed(line) ==
    {i \in 1..Len(line) :
        /\ line[i] \in Openers
        /\ ~\E j \in (i + 1)..Len(line) : WellNested(SubSeq(line, i, j))}

\* C9: balance soundness: a line whose delimiters are correctly nested (hence
\* in equal counts) and none of which lies inside a quoted string gets no
\* balance diagnostic.
C9_BalanceSoundness ==
    pc # "start" =>
        \A n \in 1..Len(lines) :
            (WellNested(strip(lines[n])) /\ NoDelimiterInString(strip(lines[n])))
                => DiagsAt(BalanceKinds, n) = {}

\* C10: when the scan of a line ends with a non-empty stack and without a
\* closer error, the line gets exactly one balance diagnostic: a CRITICAL
\* 'unclosed bracket' naming the innermost open delimiter (the most recently
\* opened one still unclosed); the line SELECT [a, b gets exactly one, naming [.
C10_UnclosedNamesInnermost ==
    pc # "start" =>
        /\ \A n \in 1..Len(lines) :
              Scanned(n) =>
                LET line == strip(lines[n])
                    r == scan(n, line, 1, <<>>, FALSE, FALSE)
                IN  (r.error = <<>> /\ r.stack # <<>>) =>
                      \E d \in DiagsAt(BalanceKinds, n) :
                          /\ DiagsAt(BalanceKinds, n) = {d}
                          /\ Returned[d].severity = CRITICAL
                          /\ Returned[d].message = <<"Unclosed bracket", r.stack[Len(r.stack)]>>
                          /\ (Range(line) \cap (Quotes \cup {Backslash}) = {}
                                => Returned[d].message[2] = line[Max(Unclosed(line))])
        /\ query = <<L_SELECT_OPEN>> =>
              \E d \in DiagsAt(BalanceKinds, 1) :
                  /\ DiagsAt(BalanceKinds, 1) = {d}
                  /\ Returned[d].severity = CRITICAL
                  /\ Returned[d].message = <<"Unclosed bracket", "[">>

\* A line that leaves two different openers open: the diagnostic names the
\* inner one
C10_Witness ==
    /\ pc # "start"
    /\ Len(lines) = 1
    /\ LET r == scan(1, strip(lines[1]), 1, <<>>, FALSE, FALSE)
       IN  /\ r.error = <<>>
           /\ Len(r.stack) = 2
           /\ r.stack[1] # r.stack[2]
           /\ \E d \in DiagsAt(BalanceKinds, 1) :
                 Returned[d].message = <<"Unclosed bracket", r.stack[2]>>

-----------------------------------------------------------------------------
(* Structural diagnostics *)

UnquotedFields == "Field names without quotes (valid but not recommended for readability)"

StructuralKinds == BalanceKinds \cup {UnquotedFields}

-----------------------------------------------------------------------------
(* Quoted spans *)

\* The quote that is still open at the end of the line ("" when every quoted
\* span of the line is closed), strings read as in InsideString.
RECURSIVE OpenQuote(_, _, _, _)
OpenQuote(line, i, q, esc) ==
    IF i > Len(line) THEN q
    ELSE IF q = ""
         THEN OpenQuote(line, i + 1, IF line[i] \in Quotes THEN line[i] ELSE "", FALSE)
    ELSE IF esc THEN OpenQuote(line, i + 1, q, FALSE)
    ELSE IF line[i] = Backslash THEN OpenQuote(line, i + 1, q, TRUE)
    ELSE IF line[i] = q THEN OpenQuote(line, i + 1, "", FALSE)
    ELSE OpenQuote(line, i + 1, q, FALSE)

\* The line with every delimiter that lies inside a quoted span replaced by a
\* letter: the quoted spans keep their extent, their quotes and their
\* backslashes, and hold no delimiter any more.
Blanked(line) ==
    LET inside == InsideString(line, 1, "", FALSE)
    IN  [i \in 1..Len(line) |->
            IF i \in inside /\ line[i] \in Delimiters THEN "a" ELSE line[i]]

\* C11: the balance scan is string-aware: the delimiters inside a
\* single-quoted or double-quoted span neither cause nor hide a balance
\* diagnostic, whatever else the span holds (the other kind of quote
\* included): a line whose quoted spans are all closed gets the balance
\* diagnostics of the same line with the delimiters inside its spans replaced
\* by letters.
C11_StringAwareScan ==
    pc # "start" =>
        \A n \in 1..Len(lines) :
            \A line \in {strip(lines[n])} :
                (Scanned(n) /\ OpenQuote(line, 1, "", FALSE) = "") =>
                    {Returned[d].message : d \in DiagsAt(BalanceKinds, n)}
                      = {b.message : b \in Range(BalanceIssues(n, Blanked(line)))}

-----------------------------------------------------------------------------
(* Delimiters of a line, as the scan reads them *)

\* The delimiters the scan of _check_bracket_balance acts on, in order: those
\* that do not follow a backslash and are not between two quote characters.
RECURSIVE ReadDelimiters(_, _, _, _)
ReadDelimiters(line, i, in_string, escape) ==
    IF i > Len(line) THEN <<>>
    ELSE IF escape THEN ReadDelimiters(line, i + 1, in_string, FALSE)
    ELSE IF line[i] = Backslash THEN ReadDelimiters(line, i + 1, in_string, TRUE)
    ELSE IF line[i] \in Quotes THEN ReadDelimiters(line, i + 1, ~in_string, FALSE)
    ELSE IF in_string \/ line[i] \notin Delimiters
         THEN ReadDelimiters(line, i + 1, in_string, FALSE)
    ELSE <<line[i]>> \o ReadDelimiters(line, i + 1, in_string, FALSE)

Unbalanced(line) == ~Nested(ReadDelimiters(line, 1, FALSE, FALSE), 1, <<>>)

-----------------------------------------------------------------------------
(* Order of the returned list *)

GroupUsesKey == "GROUP uses 'key' parameter - should use 'pk' instead"

GroupUsesValue == "GROUP uses 'value' parameter - this is UPDATE syntax, not GROUP"

FilterAfterGroup == "FILTER after GROUP - may impact performance"

SelectStar == "SELECT [*] includes all fields - may impact performance"

\* The place of the check that emits a diagnostic in the order validate runs
\* the checks in: 0 for the structural checks, then the eight rules.
CheckOrder(issue) ==
    LET m == issue.message[1]
    IN  CASE m \in StructuralKinds   -> 0
          [] m = MissingLoader        -> 1
          [] m = LoaderBeforeCategory -> 2
          [] m = UpdateWithoutGroup   -> 3
          [] m = MismatchedSubEnd     -> 4
          [] m \in {GroupUsesKey, GroupUsesValue} -> 5
          [] m = FilterAfterGroup     -> 6
          [] m = SelectStar           -> 7
          [] m = LimitWithoutOrder    -> 8

\* C13: the returned list is in execution order: first the structural
\* diagnostics in ascending line order, the balance diagnostic of a line
\* before its object-shape INFO, then the diagnostics of the rules in the
\* order required data source, loader before CATEGORY, UPDATE requires GROUP,
\* SUB/END pairing, GROUP parameter misuse, FILTER after GROUP, unbounded
\* SELECT, LIMIT without ORDER: no diagnostic of a later check precedes one
\* of an earlier check.
C13_ExecutionOrder ==
    pc # "start" =>
        \A j, k \in 1..Len(Returned) :
            j < k =>
                /\ CheckOrder(Returned[j]) <= CheckOrder(Returned[k])
                /\ CheckOrder(Returned[k]) = 0 =>
                      /\ Returned[j].line <= Returned[k].line
                      /\ Returned[j].line = Returned[k].line =>
                            ~(/\ Returned[j].message[1] = UnquotedFields
                              /\ Returned[k].message[1] \in BalanceKinds)

\* A structural diagnostic of line 2 precedes a rule's diagnostic anchored at
\* line 1, and some line has both structural diagnostics
C13_Witness ==
    /\ pc # "start"
    /\ \E j, k \in 1..Len(Returned) :
          /\ j < k
          /\ CheckOrder(Returned[j]) = 0 /\ Returned[j].line = 2
          /\ CheckOrder(Returned[k]) > 0 /\ Returned[k].line = 1
    /\ \E n \in 1..Len(lines) :
          DiagsAt(BalanceKinds, n) # {} /\ DiagsAt({UnquotedFields}, n) # {}

-----------------------------------------------------------------------------
(* GROUP parameters *)

\* The text holds the parameter w: the word w, not the tail of a longer word,
\* followed by a colon with nothing but blanks between them.
TextHasParam(text, w) ==
    \E i, j \in 1..Len(text) :
        /\ i < j
        /\ text[i] = w
        /\ text[j] = ":"
        /\ \A m \in (i + 1)..(j - 1) : IsSpace(text[m])
        /\ (i > 1 => ~EndsWord(text[i - 1]))

\* C14: every GROUP entry yields a CRITICAL diagnostic recommending pk at its
\* line exactly when its raw text holds a key: parameter, and a separate
\* CRITICAL diagnostic exactly when it holds a value: parameter (both when
\* both are there); a GROUP with pk only yields neither, and no such
\* diagnostic is anchored at a line that is no GROUP entry.
C14_GroupParameterMisuse ==
    pc # "start" =>
        /\ \A k \in 1..Len(commands) :
              commands[k][2] = "GROUP" =>
                \A text \in {strip(lines[commands[k][1]])} :
                  /\ Cardinality(DiagsAt({GroupUsesKey}, commands[k][1])) =
                        IF TextHasParam(text, "key") THEN 1 ELSE 0
                  /\ Cardinality(DiagsAt({GroupUsesValue}, commands[k][1])) =
                        IF TextHasParam(text, "value") THEN 1 ELSE 0
        /\ \A d \in Diags({GroupUsesKey, GroupUsesValue}) :
              /\ Returned[d].severity = CRITICAL
              /\ Returned[d].message[1] = GroupUsesKey =>
                    Returned[d].suggestion =
                        <<"Use GROUP {pk: \"field\"} or GROUP {timeunit: \"5m\", pk: \"field\"}">>
              /\ \E k \in 1..Len(commands) :
                    commands[k][2] = "GROUP" /\ commands[k][1] = Returned[d].line

\* A GROUP with key and value gets both diagnostics, next to a FILTER with
\* key that gets none
C14_Witness ==
    /\ pc # "start"
    /\ Names(commands) = <<"GROUP", "FILTER">>
    /\ TextHasParam(commands[1][3], "key") /\ TextHasParam(commands[1][3], "value")
    /\ TextHasParam(commands[2][3], "key")
    /\ \E d1, d2 \in 1..Len(Returned) :
          /\ d1 < d2
          /\ DiagsAt({GroupUsesKey}, commands[1][1]) = {d1}
          /\ DiagsAt({GroupUsesValue}, commands[1][1]) = {d2}
    /\ Cardinality(Diags({GroupUsesKey, GroupUsesValue})) = 2

-----------------------------------------------------------------------------
(* Best-practice rules *)

\* C15 as stated: the WARNING 'FILTER after GROUP' is emitted whenever the
\* stream holds a FILTER entry after the first GROUP entry, anchored at that
\* FILTER's line, and none is emitted when no FILTER follows the first GROUP
\* or one of the two commands is absent.
C15_FilterAfterGroup ==
    pc # "start" =>
        LET F == {k \in 1..Len(commands) : commands[k][2] = "FILTER"}
            G == {k \in 1..Len(commands) : commands[k][2] = "GROUP"}
            After == {k \in F : G # {} /\ k > Min(G)}
        IN  /\ After # {} =>
                  \E k \in After : \E d \in DiagsAt({FilterAfterGroup}, commands[k][1]) :
                      Returned[d].severity = WARNING
            /\ After = {} => Diags({FilterAfterGroup}) = {}

\* C15 amended: exactly one WARNING 'FILTER after GROUP' is emitted, anchored
\* at the line of the first FILTER entry, when the first FILTER entry of the
\* stream comes after the first GROUP entry; none is emitted when the first
\* FILTER precedes the first GROUP, whatever FILTER follows the GROUP, or
\* when one of the two commands is absent.
C15_FirstFilterAfterGroup ==
    pc # "start" =>
        LET F == {k \in 1..Len(commands) : commands[k][2] = "FILTER"}
            G == {k \in 1..Len(commands) : commands[k][2] = "GROUP"}
        IN  IF F # {} /\ G # {} /\ Min(F) > Min(G)
            THEN \E d \in Diags({FilterAfterGroup}) :
                    /\ Diags({FilterAfterGroup}) = {d}
                    /\ Returned[d].severity = WARNING
                    /\ Returned[d].line = commands[Min(F)][1]
            ELSE Diags({FilterAfterGroup}) = {}

\* GROUP, FILTER, FILTER: one warning, at the first FILTER
C15_Witness ==
    /\ pc # "start"
    /\ Names(commands) = <<"GROUP", "FILTER", "FILTER">>
    /\ \E d \in Diags({FilterAfterGroup}) :
          /\ Diags({FilterAfterGroup}) = {d}
          /\ Returned[d].line = commands[2][1]

\* C16: exactly one INFO 'LIMIT without ORDER' is emitted, anchored at the
\* line of the first LIMIT entry, when the stream holds at least one LIMIT
\* entry and no ORDER entry anywhere; otherwise none, however many LIMIT
\* entries there are.
C16_LimitWithoutOrder ==
    pc # "start" =>
        LET L == {k \in 1..Len(commands) : commands[k][2] = "LIMIT"}
            O == {k \in 1..Len(commands) : commands[k][2] = "ORDER"}
        IN  IF L # {} /\ O = {}
            THEN \E d \in Diags({LimitWithoutOrder}) :
                    /\ Diags({LimitWithoutOrder}) = {d}
                    /\ Returned[d].severity = INFO
                    /\ Returned[d].line = commands[Min(L)][1]
            ELSE Diags({LimitWithoutOrder}) = {}

\* Two LIMIT entries after another entry and no ORDER: one diagnostic, at the
\* first LIMIT
C16_Witness ==
    /\ pc # "start"
    /\ Len(commands) = 3
    /\ commands[2][2] = "LIMIT" /\ commands[3][2] = "LIMIT"
    /\ commands[1][2] \notin {"LIMIT", "ORDER"}
    /\ \E d \in Diags({LimitWithoutOrder}) :
          /\ Diags({LimitWithoutOrder}) = {d}
          /\ Returned[d].line = commands[2][1]

-----------------------------------------------------------------------------
(* The end-to-end scenario *)

\* C17: the six lines of the end-to-end query are classified, in order, as
\* CATEGORY, TAGLOAD, FILTER, GROUP, UPDATE, SELECT at lines 1 to 6, and
\* validate returns is_valid = TRUE with no CRITICAL diagnostic.
C17_EndToEnd ==
    (pc # "start" /\ query = Q_EndToEnd) =>
        /\ Names(commands) = <<"CATEGORY", "TAGLOAD", "FILTER", "GROUP", "UPDATE", "SELECT">>
        /\ \A k \in 1..Len(commands) : commands[k][1] = k
        /\ result[1] = TRUE
        /\ \A d \in 1..Len(Returned) : Returned[d].severity # CRITICAL

C17_Witness ==
    /\ pc = "exit"
    /\ query = Q_EndToEnd
    /\ Len(commands) = 6
    /\ exit_code = 0

-----------------------------------------------------------------------------
(* One balance diagnostic per line *)

\* The closers of a line without quotes and backslashes that close no opener:
\* no part of the line from an opener up to the closer is correctly nested.
BadClosers(line) ==
    {j \in 1..Len(line) :
        /\ line[j] \in closing
        /\ ~\E i \in 1..(j - 1) :
              line[i] \in Openers /\ WellNested(SubSeq(line, i, j))}

\* C18: each line yields at most one balance diagnostic, and that one is
\* determined by the characters of the line alone: it is what the scan of the
\* line started on an empty stack yields, whatever the other lines of the text
\* leave open; the scan stops at the first closer that closes nothing or the
\* wrong opener, so that the diagnostic names that closer and no 'unclosed
\* bracket' diagnostic is added for the openers still on the stack.
C18_OneBalanceDiagnosticPerLine ==
    pc # "start" =>
        \A n \in 1..Len(lines) :
            \A line \in {strip(lines[n])} :
                /\ Cardinality(DiagsAt(BalanceKinds, n)) <= 1
                /\ Scanned(n) =>
                      {Returned[d].message : d \in DiagsAt(BalanceKinds, n)}
                        = {b.message : b \in Range(BalanceIssues(1, line))}
                /\ (/\ Scanned(n)
                    /\ Range(line) \cap (Quotes \cup {Backslash}) = {}
                    /\ BadClosers(line) # {}) =>
                      \E d \in DiagsAt(BalanceKinds, n) :
                          /\ Returned[d].message[1] \in
                                {"Unmatched closing bracket", "Mismatched brackets"}
                          /\ Returned[d].message[Len(Returned[d].message)]
                                = line[Min(BadClosers(line))]

\* An opener left open on line 1 and its closer on line 2: each line gets its
\* own diagnostic
C18_Witness ==
    /\ pc # "start"
    /\ Len(lines) = 2
    /\ \E d1 \in DiagsAt(BalanceKinds, 1), d2 \in DiagsAt(BalanceKinds, 2) :
          /\ Returned[d1].message = <<"Unclosed bracket", "[">>
          /\ Returned[d2].message = <<"Unmatched closing bracket", "]">>

\* C20: the classifier and the structural checker agree on comments: a line
\* the classifier skips as blank or as a comment (starting with #, //, -- or
\* /*) gets no structural diagnostic, neither a balance CRITICAL nor an
\* object-shape INFO.
C20_CommentsYieldNothing ==
    pc # "start" =>
        \A n \in 1..Len(lines) :
            IsParserSkipped(strip(lines[n])) => DiagsAt(StructuralKinds, n) = {}

-----------------------------------------------------------------------------
(* The generated test query *)

IsCategoryLine(l) == strip(l) # <<>> /\ Fold(strip(l)[1]) = "CATEGORY"

IsLoaderLine(l) == strip(l) # <<>> /\ Fold(strip(l)[1]) \in {"TAGLOAD", "FLEX-LOAD"}

\* C19: generate_test_query inserts the single line APPEND {query: test_data}
\* into the original query so that it comes after the CATEGORY line and after
\* the loader line (TAGLOAD or FLEX-LOAD) whenever the original holds them,
\* in every order of the two, and at the very start only when the original
\* holds neither.
C19_AppendAfterCategoryAndLoader ==
    pc = "generated" =>
        LET ql == strip_split(original_query)
            tail == SubSeq(test_query, Len(test_query) - Len(ql), Len(test_query))
            P == {p \in 1..Len(tail) : tail[p] = L_APPEND}
            C == {i \in 1..Len(ql) : IsCategoryLine(ql[i])}
            D == {i \in 1..Len(ql) : IsLoaderLine(ql[i])}
        IN  \E p \in P :
                /\ P = {p}
                /\ ql = SubSeq(tail, 1, p - 1) \o SubSeq(tail, p + 1, Len(tail))
                /\ C # {} => p > Min(C)
                /\ D # {} => p > Min(D)
                /\ p = 1 => C \cup D = {}

-----------------------------------------------------------------------------
(* Line numbers of the diagnostics *)

\* C21: every diagnostic of every result carries a line number between 1 and
\* the number of lines of the analysed text (which is at least 1, an empty
\* query being split into one line, and at most the number of lines of the
\* text as supplied): the diagnostics of a line or of a command entry carry
\* the number of an existing line, and the two that belong to no line, the
\* missing data loader and the SUB/END mismatch, carry the sentinel 1.
C21_LineNumbersInRange ==
    pc # "start" =>
        /\ 1 <= Len(lines) /\ Len(lines) <= Len(query)
        /\ \A d \in 1..Len(Returned) :
              /\ 1 <= Returned[d].line
              /\ Returned[d].line <= Len(lines)
        /\ \A d \in Diags({MissingLoader, MismatchedSubEnd}) : Returned[d].line = 1

\* The empty query: one empty line, and the missing-loader diagnostic at it
C21_Witness ==
    /\ pc # "start"
    /\ query = <<L_EMPTY>>
    /\ lines = << <<>> >>
    /\ \E d \in Diags({MissingLoader}) : Returned[d].line = 1

=============================================================================
